---- MODULE Spec2Model ----
(***************************************************************************)
(* A model of ufilename (src/src/ufilename/__init__.py): the policy        *)
(* registry, the ten filename policies with their to_dict / from_dict      *)
(* conversions and their generate methods, CompositePolicy's context       *)
(* threading and build_filename.                                           *)
(*                                                                         *)
(* Python values are tagged records: [none |-> 0], [bool |-> b],           *)
(* [int |-> n], [str |-> s], [list |-> seq], [path |-> s].  A dict is a    *)
(* function from its keys (strings) to such values.  A call either         *)
(* returns, [val |-> v], or raises, [err |-> class, msg |-> text].         *)
(***************************************************************************)
EXTENDS Integers, Sequences, FiniteSets, TLC

VARIABLES
    registry,   \* _POLICY_REGISTRY: type tag -> name of the registered class
    files,      \* the paths that exist on the filesystem
    op,         \* the last call made to the library, its arguments and outcome
    scan        \* the IncrementPolicy.generate call in progress (SpecInc)

vars == <<registry, files, op, scan>>

-----------------------------------------------------------------------------
(* Bounds of the model. *)

\* The largest sequence number whose file the environment may create.
MaxNum == 2
\* The most files the directory holds in Spec.
MaxFiles == 2
\* The most classes registered on top of the ten built-in ones.
MaxUserClasses == 2
\* The number of hex characters of a modelled digest (64 for sha256).
DigestLen == 4

-----------------------------------------------------------------------------
(* Python values. *)

None == [none |-> 0]
PyBool(b) == [bool |-> b]
PyInt(n) == [int |-> n]
PyStr(s) == [str |-> s]
PyList(q) == [list |-> q]
PyPath(s) == [path |-> s]

IsNone(v) == "none" \in DOMAIN v
IsBool(v) == "bool" \in DOMAIN v
IsInt(v) == "int" \in DOMAIN v
IsStr(v) == "str" \in DOMAIN v
IsList(v) == "list" \in DOMAIN v

Val(v) == [val |-> v]
Raise(class, text) == [err |-> class, msg |-> text]
IsErr(r) == "err" \in DOMAIN r

EmptyDict == [k \in {} |-> None]

\* d.get(k, default)
DictGet(d, k, default) == IF k \in DOMAIN d THEN d[k] ELSE default

\* d[k] = v
DictSet(d, k, v) == [q \in DOMAIN d \cup {k} |-> IF q = k THEN v ELSE d[q]]

\* Python truthiness: `not x`, `x or y`, bool(x).
Truthy(v) ==
    IF IsNone(v) THEN FALSE
    ELSE IF IsBool(v) THEN v.bool
    ELSE IF IsInt(v) THEN v.int # 0
    ELSE IF IsStr(v) THEN v.str # ""
    ELSE IF IsList(v) THEN v.list # <<>>
    ELSE IF DOMAIN v = {} THEN FALSE
    ELSE TRUE

DecDigits == "0123456789"
HexDigits == "0123456789abcdef"

CharAt(s, k) == SubSeq(s, k, k)

RECURSIVE NatToStr(_)
NatToStr(n) ==
    IF n < 10 THEN CharAt(DecDigits, n + 1)
    ELSE NatToStr(n \div 10) \o CharAt(DecDigits, (n % 10) + 1)

\* str(n) for an int
IntToStr(n) == IF n < 0 THEN "-" \o NatToStr(0 - n) ELSE NatToStr(n)

IsDigit(c) == \E d \in 1..10 : CharAt(DecDigits, d) = c
DigitVal(c) == (CHOOSE d \in 1..10 : CharAt(DecDigits, d) = c) - 1

RECURSIVE DigitsToNat(_)
DigitsToNat(s) ==
    IF s = "" THEN 0
    ELSE DigitsToNat(SubSeq(s, 1, Len(s) - 1)) * 10 + DigitVal(CharAt(s, Len(s)))

AllDigits(s) == s # "" /\ \A k \in 1..Len(s) : IsDigit(CharAt(s, k))

\* str(v)
PyStrOf(v) ==
    IF IsStr(v) THEN Val(v)
    ELSE IF IsInt(v) THEN Val(PyStr(IntToStr(v.int)))
    ELSE IF IsBool(v) THEN Val(PyStr(IF v.bool THEN "True" ELSE "False"))
    ELSE IF IsNone(v) THEN Val(PyStr("None"))
    ELSE Val(PyStr("<object>"))

\* int(v): an int is kept, a bool is 0 or 1, a string is parsed as a decimal
\* literal, anything else is a TypeError.
PyIntOf(v) ==
    IF IsInt(v) THEN Val(v)
    ELSE IF IsBool(v) THEN Val(PyInt(IF v.bool THEN 1 ELSE 0))
    ELSE IF IsStr(v) THEN
        IF AllDigits(v.str) THEN Val(PyInt(DigitsToNat(v.str)))
        ELSE IF Len(v.str) > 1 /\ CharAt(v.str, 1) = "-"
                /\ AllDigits(SubSeq(v.str, 2, Len(v.str)))
            THEN Val(PyInt(0 - DigitsToNat(SubSeq(v.str, 2, Len(v.str)))))
        ELSE Raise("ValueError", "invalid literal for int()")
    ELSE Raise("TypeError", "int() argument must be a string or a number")

\* bool(v)
PyBoolOf(v) == Val(PyBool(Truthy(v)))

\* repr(v)
PyRepr(v) ==
    IF IsStr(v) THEN "'" \o v.str \o "'"
    ELSE IF IsInt(v) THEN IntToStr(v.int)
    ELSE IF IsBool(v) THEN (IF v.bool THEN "True" ELSE "False")
    ELSE IF IsNone(v) THEN "None"
    ELSE "<object>"

\* s[:n], Python's slice of a string
SliceTo(s, n) ==
    IF n >= Len(s) THEN s
    ELSE IF n >= 0 THEN SubSeq(s, 1, n)
    ELSE IF Len(s) + n > 0 THEN SubSeq(s, 1, Len(s) + n)
    ELSE ""

-----------------------------------------------------------------------------
(* The collaborators: secure random source, clock, host name, UUID         *)
(* generator, hash library, filesystem.  A world w holds what they answer  *)
(* during one call: w.files, w.tape (the random bytes, read in order),     *)
(* w.now (the clock's fields by strftime directive), w.host, w.uuid1.      *)

\* bytes.hex() of one byte
ByteHex(b) == CharAt(HexDigits, (b \div 16) + 1) \o CharAt(HexDigits, (b % 16) + 1)

TapeByte(w, k) == w.tape[((k - 1) % Len(w.tape)) + 1]

RECURSIVE BytesHex(_, _, _)
BytesHex(w, pos, n) ==
    IF n <= 0 THEN "" ELSE ByteHex(TapeByte(w, pos + 1)) \o BytesHex(w, pos + 1, n - 1)

\* secrets.token_hex(nbytes): nbytes random bytes, two hex digits each
token_hex(w, pos, nbytes) == BytesHex(w, pos, nbytes)

\* str(uuid.uuid4()): random; str(uuid.uuid1()): from the clock and the node
UuidBytes == 2
uuid4(w, pos) == ByteHex(TapeByte(w, pos + 1)) \o "-" \o BytesHex(w, pos + 1, UuidBytes - 1)
uuid1(w) == w.uuid1

\* datetime.now().strftime(fmt): a directive %c is replaced by the clock's
\* field c, %% by %, every other character is copied.
RECURSIVE strftime(_, _)
strftime(now, fmt) ==
    IF fmt = "" THEN ""
    ELSE IF CharAt(fmt, 1) = "%" /\ Len(fmt) >= 2 THEN
        LET c == CharAt(fmt, 2)
            rest == SubSeq(fmt, 3, Len(fmt))
        IN  IF c \in DOMAIN now THEN now[c] \o strftime(now, rest)
            ELSE IF c = "%" THEN "%" \o strftime(now, rest)
            ELSE "%" \o c \o strftime(now, rest)
    ELSE CharAt(fmt, 1) \o strftime(now, SubSeq(fmt, 2, Len(fmt)))

\* socket.gethostname()
gethostname(w) == w.host

RECURSIVE FindChar(_, _, _)
FindChar(s, c, k) ==
    IF k > Len(s) THEN 0
    ELSE IF CharAt(s, k) = c THEN k
    ELSE FindChar(s, c, k + 1)

\* host.split(".", 1)[0]
BeforeFirstDot(host) ==
    LET k == FindChar(host, ".", 1)
    IN  IF k = 0 THEN host ELSE SubSeq(host, 1, k - 1)

\* The hash names hashlib.new accepts.
SupportedAlgos == {"sha256", "md5"}

CodeChars == "0123456789abcdefghijklmnopqrstuvwxyz_-.'TFN"

CharCode(c) ==
    IF \E k \in 1..Len(CodeChars) : CharAt(CodeChars, k) = c
    THEN CHOOSE k \in 1..Len(CodeChars) : CharAt(CodeChars, k) = c
    ELSE 0

RECURSIVE StrCode(_)
StrCode(s) ==
    IF s = "" THEN 7
    ELSE (StrCode(SubSeq(s, 1, Len(s) - 1)) * 31 + CharCode(CharAt(s, Len(s)))) % 65536

RECURSIVE DigestHex(_, _)
DigestHex(code, k) ==
    IF k > DigestLen THEN ""
    ELSE CharAt(HexDigits, (((code \div k) + 5 * k) % 16) + 1) \o DigestHex(code, k + 1)

\* As hexdigest, every name accepted.
hexdigest_any(algo, raw) == Val(DigestHex(StrCode(PyRepr(algo) \o ":" \o raw), 1))

\* hashlib.new(algo, raw).hexdigest(): some fixed function of (algo, raw) onto
\* DigestLen hex characters; an unsupported name is a ValueError.
hexdigest(algo, raw) ==
    IF IsStr(algo) /\ algo.str \in SupportedAlgos
    THEN Val(DigestHex(StrCode(algo.str \o ":" \o raw), 1))
    ELSE IF IsStr(algo) THEN Raise("ValueError", "unsupported hash type")
    ELSE Raise("TypeError", "name must be a string")

\* Path.exists() of directory / name
PathJoin(directory, name) == directory.path \o "/" \o name
exists(fs, path) == path \in fs

-----------------------------------------------------------------------------
(* FilenameContext *)

FilenameContext(base, ext, directory, metadata) ==
    [base |-> base, ext |-> ext, directory |-> directory, metadata |-> metadata]

with_base(self, new_base) ==
    FilenameContext(new_base, self.ext, self.directory,
                    [k \in DOMAIN self.metadata |-> self.metadata[k]])

-----------------------------------------------------------------------------
(* The classes.  Each of the ten built-in classes sets type_name; the      *)
(* other classes are what a caller may hand to register_policy: subclasses *)
(* of a built-in class that override type_name, and a class without one.   *)

BuiltinClasses ==
    [IdentityPolicy     |-> [type_name |-> PyStr("identity"),      kind |-> "IdentityPolicy"],
     PrefixPolicy       |-> [type_name |-> PyStr("prefix"),        kind |-> "PrefixPolicy"],
     SuffixPolicy       |-> [type_name |-> PyStr("suffix"),        kind |-> "SuffixPolicy"],
     RandomHexPolicy    |-> [type_name |-> PyStr("random_hex"),    kind |-> "RandomHexPolicy"],
     TimestampPolicy    |-> [type_name |-> PyStr("timestamp"),     kind |-> "TimestampPolicy"],
     IncrementPolicy    |-> [type_name |-> PyStr("increment"),     kind |-> "IncrementPolicy"],
     UUIDPolicy         |-> [type_name |-> PyStr("uuid"),          kind |-> "UUIDPolicy"],
     HostnamePolicy     |-> [type_name |-> PyStr("hostname"),      kind |-> "HostnamePolicy"],
     MetadataHashPolicy |-> [type_name |-> PyStr("metadata_hash"), kind |-> "MetadataHashPolicy"],
     CompositePolicy    |-> [type_name |-> PyStr("composite"),     kind |-> "CompositePolicy"]]

UserClasses ==
    [StampPolicy   |-> [type_name |-> PyStr("stamp"),    kind |-> "PrefixPolicy"],
     StampPolicy2  |-> [type_name |-> PyStr("stamp"),    kind |-> "SuffixPolicy"],
     MyIdentity    |-> [type_name |-> PyStr("identity"), kind |-> "IdentityPolicy"],
     BlankPolicy   |-> [type_name |-> PyStr(""),         kind |-> "IdentityPolicy"],
     PlainClass    |-> [kind |-> "object"]]

Classes ==
    [c \in DOMAIN BuiltinClasses \cup DOMAIN UserClasses |->
        IF c \in DOMAIN BuiltinClasses THEN BuiltinClasses[c] ELSE UserClasses[c]]

\* hasattr(cls, "type_name"), cls.type_name
HasTypeName(cls) == "type_name" \in DOMAIN Classes[cls]
TypeNameOf(cls) == Classes[cls].type_name
KindOf(cls) == Classes[cls].kind

-----------------------------------------------------------------------------
(* Errors, by the message the code raises them with. *)

MissingTypeName == Raise("ValueError", "Policy must define class attribute 'type_name'")
DuplicateRegistration == Raise("ValueError", "Policy type_name already registered")
MissingType == Raise("ValueError", "Missing 'type' in policy config")
UnknownType == Raise("ValueError", "Unknown policy type")
InvalidLength == Raise("ValueError", "length must be positive")
UnsupportedVersion == Raise("ValueError", "Only UUID versions 1 and 4 are supported")
MissingDirectory == Raise("ValueError", "IncrementPolicy requires a directory in context")
UnknownAlgorithm == Raise("ValueError", "Unknown hash algorithm")
InvalidFormatSpec == Raise("ValueError", "Invalid format specifier")
NotIterable == Raise("TypeError", "object is not iterable")
StrftimeType == Raise("TypeError", "strftime() argument 1 must be str")

-----------------------------------------------------------------------------
(* Constructors.  An instance is a record: its class and its attributes.   *)

IdentityPolicy_init(cls) == Val([cls |-> cls])

PrefixPolicy_init(cls, prefix) == Val([cls |-> cls, prefix |-> prefix])

SuffixPolicy_init(cls, suffix) == Val([cls |-> cls, suffix |-> suffix])

RandomHexPolicy_init(cls, length) ==
    IF length.int <= 0 THEN InvalidLength
    ELSE Val([cls |-> cls, length |-> length])

TimestampPolicy_init(cls, fmt) == Val([cls |-> cls, fmt |-> fmt])

IncrementPolicy_init(cls, width, start) ==
    Val([cls |-> cls, width |-> width, start |-> start])

UUIDPolicy_init(cls, version) ==
    IF version.int \notin {1, 4} THEN UnsupportedVersion
    ELSE Val([cls |-> cls, version |-> version])

HostnamePolicy_init(cls, short) == Val([cls |-> cls, short |-> short])

MetadataHashPolicy_init(cls, key, algo, length) ==
    Val([cls |-> cls, key |-> key, algo |-> algo, length |-> length])

CompositePolicy_init(cls, policies) == Val([cls |-> cls, policies |-> policies])

-----------------------------------------------------------------------------
(* to_dict *)

\* FilenamePolicy.to_dict
FilenamePolicy_to_dict(self) == [type |-> TypeNameOf(self.cls)]

RECURSIVE to_dict(_)
RECURSIVE ToDictList(_, _)
ToDictList(policies, k) ==
    IF k > Len(policies) THEN <<>>
    ELSE <<to_dict(policies[k])>> \o ToDictList(policies, k + 1)

to_dict(self) ==
    LET data == FilenamePolicy_to_dict(self)
        kind == KindOf(self.cls)
    IN  CASE kind = "IdentityPolicy" -> data
          [] kind = "PrefixPolicy" -> DictSet(data, "prefix", self.prefix)
          [] kind = "SuffixPolicy" -> DictSet(data, "suffix", self.suffix)
          [] kind = "RandomHexPolicy" -> DictSet(data, "length", self.length)
          [] kind = "TimestampPolicy" -> DictSet(data, "fmt", self.fmt)
          [] kind = "IncrementPolicy" ->
                DictSet(DictSet(data, "width", self.width), "start", self.start)
          [] kind = "UUIDPolicy" -> DictSet(data, "version", self.version)
          [] kind = "HostnamePolicy" -> DictSet(data, "short", self.short)
          [] kind = "MetadataHashPolicy" ->
                DictSet(DictSet(DictSet(data, "key", self.key), "algo", self.algo),
                        "length", self.length)
          [] kind = "CompositePolicy" ->
                DictSet(data, "policies", PyList(ToDictList(self.policies, 1)))

-----------------------------------------------------------------------------
(* from_dict and policy_from_dict; reg is _POLICY_REGISTRY. *)

RECURSIVE policy_from_dict(_, _)
RECURSIVE FromDictList(_, _, _, _)

IdentityPolicy_from_dict(cls, data) == IdentityPolicy_init(cls)

PrefixPolicy_from_dict(cls, data) ==
    LET prefix == PyStrOf(DictGet(data, "prefix", PyStr("")))
    IN  IF IsErr(prefix) THEN prefix ELSE PrefixPolicy_init(cls, prefix.val)

SuffixPolicy_from_dict(cls, data) ==
    LET suffix == PyStrOf(DictGet(data, "suffix", PyStr("")))
    IN  IF IsErr(suffix) THEN suffix ELSE SuffixPolicy_init(cls, suffix.val)

RandomHexPolicy_from_dict(cls, data) ==
    LET length == PyIntOf(DictGet(data, "length", PyInt(8)))
    IN  IF IsErr(length) THEN length ELSE RandomHexPolicy_init(cls, length.val)

TimestampPolicy_from_dict(cls, data) ==
    TimestampPolicy_init(cls, DictGet(data, "fmt", PyStr("%Y%m%d_%H%M%S")))

IncrementPolicy_from_dict(cls, data) ==
    LET width == PyIntOf(DictGet(data, "width", PyInt(3)))
        start == PyIntOf(DictGet(data, "start", PyInt(1)))
    IN  IF IsErr(width) THEN width
        ELSE IF IsErr(start) THEN start
        ELSE IncrementPolicy_init(cls, width.val, start.val)

UUIDPolicy_from_dict(cls, data) ==
    LET version == PyIntOf(DictGet(data, "version", PyInt(4)))
    IN  IF IsErr(version) THEN version ELSE UUIDPolicy_init(cls, version.val)

HostnamePolicy_from_dict(cls, data) ==
    LET short == PyBoolOf(DictGet(data, "short", PyBool(TRUE)))
    IN  HostnamePolicy_init(cls, short.val)

MetadataHashPolicy_from_dict(cls, data) ==
    LET length == PyIntOf(DictGet(data, "length", PyInt(16)))
    IN  IF IsErr(length) THEN length
        ELSE MetadataHashPolicy_init(cls, DictGet(data, "key", PyStr("params")),
                                     DictGet(data, "algo", PyStr("sha256")), length.val)

\* As FromDictList, the children collected in reverse order.
RECURSIVE FromDictListReversed(_, _, _, _)
FromDictListReversed(policies_data, reg, k, policies) ==
    IF k > Len(policies_data) THEN Val(policies)
    ELSE LET child == policy_from_dict(policies_data[k], reg)
         IN  IF IsErr(child) THEN child
             ELSE FromDictListReversed(policies_data, reg, k + 1, <<child.val>> \o policies)

\* [policy_from_dict(p) for p in policies_data]: the first child that raises
\* ends the comprehension.
FromDictList(policies_data, reg, k, policies) ==
    IF k > Len(policies_data) THEN Val(policies)
    ELSE LET child == policy_from_dict(policies_data[k], reg)
         IN  IF IsErr(child) THEN child
             ELSE FromDictList(policies_data, reg, k + 1, Append(policies, child.val))

CompositePolicy_from_dict(cls, data, reg) ==
    LET policies_data == DictGet(data, "policies", PyList(<<>>))
    IN  IF ~IsList(policies_data) THEN NotIterable
        ELSE LET policies == FromDictList(policies_data.list, reg, 1, <<>>)
             IN  IF IsErr(policies) THEN policies
                 ELSE CompositePolicy_init(cls, policies.val)

\* cls.from_dict(data), by the class that defines it
from_dict(cls, data, reg) ==
    LET kind == KindOf(cls)
    IN  CASE kind = "IdentityPolicy" -> IdentityPolicy_from_dict(cls, data)
          [] kind = "PrefixPolicy" -> PrefixPolicy_from_dict(cls, data)
          [] kind = "SuffixPolicy" -> SuffixPolicy_from_dict(cls, data)
          [] kind = "RandomHexPolicy" -> RandomHexPolicy_from_dict(cls, data)
          [] kind = "TimestampPolicy" -> TimestampPolicy_from_dict(cls, data)
          [] kind = "IncrementPolicy" -> IncrementPolicy_from_dict(cls, data)
          [] kind = "UUIDPolicy" -> UUIDPolicy_from_dict(cls, data)
          [] kind = "HostnamePolicy" -> HostnamePolicy_from_dict(cls, data)
          [] kind = "MetadataHashPolicy" -> MetadataHashPolicy_from_dict(cls, data)
          [] kind = "CompositePolicy" -> CompositePolicy_from_dict(cls, data, reg)

\* _POLICY_REGISTRY.get(type_name)
RegistryGet(reg, type_name) ==
    IF IsStr(type_name) /\ type_name.str \in DOMAIN reg
    THEN PyStr(reg[type_name.str])
    ELSE None

\* As TypeIsMissing, had the code tested `type_name is None`.
TypeIsNone(type_name) == IsNone(type_name)

\* not type_name
TypeIsMissing(type_name) == ~Truthy(type_name)

policy_from_dict(data, reg) ==
    LET type_name == DictGet(data, "type", None)
    IN  IF TypeIsMissing(type_name) THEN MissingType
        ELSE LET cls == RegistryGet(reg, type_name)
             IN  IF IsNone(cls) THEN UnknownType
                 ELSE from_dict(cls.str, data, reg)

-----------------------------------------------------------------------------
(* generate.  A call generate(self, ctx) in world w, with pos random bytes *)
(* already drawn, is recorded as a run: the policy and the context it was  *)
(* invoked with, its outcome res, the runs of the calls it made in turn    *)
(* (calls, in order) and the random bytes drawn when it ended.             *)

Run(self, ctx, res, calls, pos) ==
    [p |-> self, ctx |-> ctx, res |-> res, calls |-> calls, pos |-> pos]

IdentityPolicy_generate(self, ctx, w, pos) ==
    Run(self, ctx, Val(ctx.base), <<>>, pos)

PrefixPolicy_generate(self, ctx, w, pos) ==
    Run(self, ctx, Val(self.prefix.str \o ctx.base), <<>>, pos)

SuffixPolicy_generate(self, ctx, w, pos) ==
    Run(self, ctx, Val(ctx.base \o self.suffix.str), <<>>, pos)

\* As RandomHexPolicy_generate, the token not cut to length.
RandomHexPolicy_generate_uncut(self, ctx, w, pos) ==
    LET nbytes == (self.length.int + 1) \div 2
    IN  Run(self, ctx, Val(ctx.base \o "_" \o token_hex(w, pos, nbytes)), <<>>, pos + nbytes)

RandomHexPolicy_generate(self, ctx, w, pos) ==
    LET nbytes == (self.length.int + 1) \div 2
        token == SliceTo(token_hex(w, pos, nbytes), self.length.int)
    IN  Run(self, ctx, Val(ctx.base \o "_" \o token), <<>>, pos + nbytes)

TimestampPolicy_generate(self, ctx, w, pos) ==
    IF ~IsStr(self.fmt) THEN Run(self, ctx, StrftimeType, <<>>, pos)
    ELSE LET ts == strftime(w.now, self.fmt.str)
         IN  Run(self, ctx, Val(ctx.base \o "_" \o ts), <<>>, pos)

RECURSIVE Zeros(_)
Zeros(n) == IF n <= 0 THEN "" ELSE "0" \o Zeros(n - 1)

\* f"{i:0{width}d}": the sign, then zeros up to width characters, then the
\* digits; a negative width is no format specifier.
FormatZeroPad(i, width) ==
    IF width < 0 THEN InvalidFormatSpec
    ELSE LET sign == IF i < 0 THEN "-" ELSE ""
             digits == NatToStr(IF i < 0 THEN 0 - i ELSE i)
         IN  Val(sign \o Zeros(width - Len(sign) - Len(digits)) \o digits)

\* candidate_base = f"{ctx.base}_{i:0{self.width}d}"
CandidateBase(self, ctx, i) ==
    LET num == FormatZeroPad(i, self.width.int)
    IN  IF IsErr(num) THEN num ELSE Val(ctx.base \o "_" \o num.val)

\* candidate = ctx.directory / f"{candidate_base}{ctx.ext}"
Candidate(ctx, candidate_base) == PathJoin(ctx.directory, candidate_base \o ctx.ext)

\* The while loop of IncrementPolicy.generate from i on, the directory not
\* changing meanwhile.
RECURSIVE IncrementLoop(_, _, _, _)
IncrementLoop(self, ctx, fs, i) ==
    LET candidate_base == CandidateBase(self, ctx, i)
    IN  IF IsErr(candidate_base) THEN candidate_base
        ELSE IF ~exists(fs, Candidate(ctx, candidate_base.val)) THEN candidate_base
        ELSE IncrementLoop(self, ctx, fs, i + 1)

IncrementPolicy_generate(self, ctx, w, pos) ==
    IF IsNone(ctx.directory) THEN Run(self, ctx, MissingDirectory, <<>>, pos)
    ELSE Run(self, ctx, IncrementLoop(self, ctx, w.files, self.start.int), <<>>, pos)

UUIDPolicy_generate(self, ctx, w, pos) ==
    IF self.version.int = 4
    THEN Run(self, ctx, Val(ctx.base \o "_" \o uuid4(w, pos)), <<>>, pos + UuidBytes)
    ELSE Run(self, ctx, Val(ctx.base \o "_" \o uuid1(w)), <<>>, pos)

HostnamePolicy_generate(self, ctx, w, pos) ==
    LET host0 == gethostname(w)
        host == IF Truthy(self.short) /\ FindChar(host0, ".", 1) # 0
                THEN BeforeFirstDot(host0) ELSE host0
    IN  Run(self, ctx, Val(ctx.base \o "_" \o host), <<>>, pos)

\* ctx.metadata.get(self.key)
MetadataValue(self, ctx) ==
    IF IsStr(self.key) THEN DictGet(ctx.metadata, self.key.str, None) ELSE None

\* As MetadataRaw, the extension hashed along with the value.
MetadataRawWithExt(self, ctx, value) == PyRepr(value) \o ctx.ext

\* What is hashed: repr(value)
MetadataRaw(self, ctx, value) == PyRepr(value)

MetadataHashPolicy_generate(self, ctx, w, pos) ==
    LET value == MetadataValue(self, ctx)
    IN  IF IsNone(value) THEN Run(self, ctx, Val(ctx.base), <<>>, pos)
        ELSE LET raw == MetadataRaw(self, ctx, value)
                 h == hexdigest(self.algo, raw)
             IN  IF IsErr(h) /\ h.err = "ValueError"
                     THEN Run(self, ctx, UnknownAlgorithm, <<>>, pos)
                 ELSE IF IsErr(h) THEN Run(self, ctx, h, <<>>, pos)
                 ELSE Run(self, ctx,
                          Val(ctx.base \o "_" \o SliceTo(h.val, self.length.int)),
                          <<>>, pos)

RECURSIVE generate(_, _, _, _)
RECURSIVE CompositeLoop(_, _, _, _)

\* As NextContext, the child's result not taken over.
NextContextStale(current_ctx, new_base) == current_ctx

\* current_ctx = current_ctx.with_base(new_base)
NextContext(current_ctx, new_base) == with_base(current_ctx, new_base)

\* As CompositeLoop, a child's exception caught and the child skipped.
RECURSIVE CompositeLoopSwallowing(_, _, _, _)
CompositeLoopSwallowing(policies, k, w, st) ==
    IF k > Len(policies) THEN [res |-> Val(st.current_ctx.base), st |-> st]
    ELSE LET child == generate(policies[k], st.current_ctx, w, st.pos)
             calls == Append(st.calls, child)
         IN  CompositeLoopSwallowing(policies, k + 1, w,
                [current_ctx |-> IF IsErr(child.res) THEN st.current_ctx
                                 ELSE with_base(st.current_ctx, child.res.val),
                 pos |-> child.pos, calls |-> calls])

\* The for loop of CompositePolicy.generate from child k on; st holds
\* current_ctx, the random bytes drawn and the runs of the children called.
\* A child that raises ends the call, its exception passing through.
CompositeLoop(policies, k, w, st) ==
    IF k > Len(policies) THEN [res |-> Val(st.current_ctx.base), st |-> st]
    ELSE LET child == generate(policies[k], st.current_ctx, w, st.pos)
             calls == Append(st.calls, child)
         IN  IF IsErr(child.res)
                 THEN [res |-> child.res,
                       st |-> [current_ctx |-> st.current_ctx, pos |-> child.pos,
                               calls |-> calls]]
             ELSE CompositeLoop(policies, k + 1, w,
                                [current_ctx |-> NextContext(st.current_ctx, child.res.val),
                                 pos |-> child.pos, calls |-> calls])

CompositePolicy_generate(self, ctx, w, pos) ==
    LET r == CompositeLoop(self.policies, 1, w,
                           [current_ctx |-> ctx, pos |-> pos, calls |-> <<>>])
    IN  Run(self, ctx, r.res, r.st.calls, r.st.pos)

generate(self, ctx, w, pos) ==
    LET kind == KindOf(self.cls)
    IN  CASE kind = "IdentityPolicy" -> IdentityPolicy_generate(self, ctx, w, pos)
          [] kind = "PrefixPolicy" -> PrefixPolicy_generate(self, ctx, w, pos)
          [] kind = "SuffixPolicy" -> SuffixPolicy_generate(self, ctx, w, pos)
          [] kind = "RandomHexPolicy" -> RandomHexPolicy_generate(self, ctx, w, pos)
          [] kind = "TimestampPolicy" -> TimestampPolicy_generate(self, ctx, w, pos)
          [] kind = "IncrementPolicy" -> IncrementPolicy_generate(self, ctx, w, pos)
          [] kind = "UUIDPolicy" -> UUIDPolicy_generate(self, ctx, w, pos)
          [] kind = "HostnamePolicy" -> HostnamePolicy_generate(self, ctx, w, pos)
          [] kind = "MetadataHashPolicy" -> MetadataHashPolicy_generate(self, ctx, w, pos)
          [] kind = "CompositePolicy" -> CompositePolicy_generate(self, ctx, w, pos)

-----------------------------------------------------------------------------
(* build_filename *)

\* metadata or {}
MetadataOrEmpty(metadata) == IF Truthy(metadata) THEN metadata ELSE EmptyDict

\* As JoinExt, the extension left out.
JoinExtMissing(basename, ext) == basename

\* f"{basename}{ext}"
JoinExt(basename, ext) == basename \o ext

\* The outcome of build_filename and the run of policy.generate(ctx).
build_filename(policy, base, ext, directory, metadata, w) ==
    LET ctx == FilenameContext(base, ext, directory, MetadataOrEmpty(metadata))
        run == generate(policy, ctx, w, 0)
    IN  [res |-> IF IsErr(run.res) THEN run.res ELSE Val(JoinExt(run.res.val, ext)),
         run |-> run]

-----------------------------------------------------------------------------
(* register_policy: the outcome and the registry after the call. *)

RegistryPut(reg, name, cls) ==
    [t \in DOMAIN reg \cup {name} |-> IF t = name THEN cls ELSE reg[t]]

\* As register_policy, without the test for a tag already registered.
register_policy_overwriting(reg, cls) ==
    IF ~HasTypeName(cls) THEN [res |-> MissingTypeName, reg |-> reg]
    ELSE [res |-> Val(cls), reg |-> RegistryPut(reg, TypeNameOf(cls).str, cls)]

register_policy(reg, cls) ==
    IF ~HasTypeName(cls) THEN [res |-> MissingTypeName, reg |-> reg]
    ELSE LET name == TypeNameOf(cls).str
         IN  IF name \in DOMAIN reg THEN [res |-> DuplicateRegistration, reg |-> reg]
             ELSE [res |-> Val(cls), reg |-> RegistryPut(reg, name, cls)]

-----------------------------------------------------------------------------
(* The inputs the calls are made with. *)

\* cls(**args)
Construct(cls, args) ==
    LET kind == KindOf(cls)
    IN  CASE kind = "IdentityPolicy" -> IdentityPolicy_init(cls)
          [] kind = "PrefixPolicy" -> PrefixPolicy_init(cls, args.prefix)
          [] kind = "SuffixPolicy" -> SuffixPolicy_init(cls, args.suffix)
          [] kind = "RandomHexPolicy" -> RandomHexPolicy_init(cls, args.length)
          [] kind = "TimestampPolicy" -> TimestampPolicy_init(cls, args.fmt)
          [] kind = "IncrementPolicy" -> IncrementPolicy_init(cls, args.width, args.start)
          [] kind = "UUIDPolicy" -> UUIDPolicy_init(cls, args.version)
          [] kind = "HostnamePolicy" -> HostnamePolicy_init(cls, args.short)
          [] kind = "MetadataHashPolicy" ->
                MetadataHashPolicy_init(cls, args.key, args.algo, args.length)
          [] kind = "CompositePolicy" -> CompositePolicy_init(cls, args.policies)

Call(cls, args) == [cls |-> cls, args |-> args]

\* The largest token length tried; lengths from -1 on are tried.
MaxLength == 3

LeafCalls ==
    {Call("IdentityPolicy", EmptyDict),
     Call("PrefixPolicy", [prefix |-> PyStr("p_")]),
     Call("PrefixPolicy", [prefix |-> PyStr("")]),
     Call("SuffixPolicy", [suffix |-> PyStr("_s")]),
     Call("TimestampPolicy", [fmt |-> PyStr("%Y")]),
     Call("TimestampPolicy", [fmt |-> PyStr("%H%M")]),
     Call("IncrementPolicy", [width |-> PyInt(2), start |-> PyInt(1)]),
     Call("IncrementPolicy", [width |-> PyInt(0), start |-> PyInt(0)]),
     Call("IncrementPolicy", [width |-> PyInt(-1), start |-> PyInt(1)]),
     Call("UUIDPolicy", [version |-> PyInt(4)]),
     Call("UUIDPolicy", [version |-> PyInt(1)]),
     Call("UUIDPolicy", [version |-> PyInt(2)]),
     Call("HostnamePolicy", [short |-> PyBool(TRUE)]),
     Call("HostnamePolicy", [short |-> PyBool(FALSE)]),
     Call("MetadataHashPolicy",
          [key |-> PyStr("id"), algo |-> PyStr("sha256"), length |-> PyInt(3)]),
     Call("MetadataHashPolicy",
          [key |-> PyStr("id"), algo |-> PyStr("md5"), length |-> PyInt(-1)]),
     Call("MetadataHashPolicy",
          [key |-> PyStr("id"), algo |-> PyStr("nope"), length |-> PyInt(3)]),
     Call("MetadataHashPolicy",
          [key |-> PyStr("params"), algo |-> PyStr("sha256"), length |-> PyInt(16)])}
    \cup {Call("RandomHexPolicy", [length |-> PyInt(n)]) : n \in (-1)..MaxLength}

Constructed(calls) ==
    {Construct(c.cls, c.args).val : c \in {d \in calls : ~IsErr(Construct(d.cls, d.args))}}

LeafPolicies == Constructed(LeafCalls)

\* The most children of a composite.
MaxChildren == 2

SeqsUpTo(S, n) == UNION {[1..k -> S] : k \in 0..n}

\* The children the composites are built from.
ChildPool ==
    Constructed({Call("IdentityPolicy", EmptyDict),
                 Call("PrefixPolicy", [prefix |-> PyStr("p_")]),
                 Call("RandomHexPolicy", [length |-> PyInt(3)]),
                 Call("IncrementPolicy", [width |-> PyInt(2), start |-> PyInt(1)]),
                 Call("MetadataHashPolicy",
                      [key |-> PyStr("id"), algo |-> PyStr("nope"),
                       length |-> PyInt(3)])})

FlatComposites ==
    Constructed({Call("CompositePolicy", [policies |-> q]) :
                    q \in SeqsUpTo(ChildPool, MaxChildren)})

\* Composites of composites.
NestedPool ==
    Constructed({Call("SuffixPolicy", [suffix |-> PyStr("_s")]),
                 Call("CompositePolicy", [policies |-> <<>>])})
    \cup {c \in FlatComposites :
            /\ Len(c.policies) = 2
            /\ KindOf(c.policies[1].cls) = "PrefixPolicy"
            /\ KindOf(c.policies[2].cls) \in {"IncrementPolicy", "RandomHexPolicy"}}

NestedComposites ==
    {c \in Constructed({Call("CompositePolicy", [policies |-> q]) :
                          q \in SeqsUpTo(NestedPool, MaxChildren)}) :
        \E k \in 1..Len(c.policies) : KindOf(c.policies[k].cls) = "CompositePolicy"}

Policies == LeafPolicies \cup FlatComposites \cup NestedComposites

Directory == PyPath("/d")

Bases == {"t", "ab"}
Exts == {"", ".x"}
Directories == {None, Directory}
Metadatas ==
    {None,
     EmptyDict,
     [id |-> PyInt(12345)],
     [id |-> PyInt(12345), other |-> PyStr("z")],
     [id |-> None, params |-> PyStr("v")]}

\* What the collaborators answer during one call.
Worlds(fs) ==
    {[files |-> fs, tape |-> <<10, 255, 176>>, host |-> "node.lan", uuid1 |-> "1e-c0",
      now |-> [Y |-> "2026", H |-> "09", M |-> "30"]],
     [files |-> fs, tape |-> <<199, 4>>, host |-> "node", uuid1 |-> "1e-c1",
      now |-> [Y |-> "2027", H |-> "23", M |-> "59"]]}


Cfg(type_name) == [type |-> PyStr(type_name)]

\* Configs that are no policy's to_dict: no type, a type that is no
\* registered tag, fields left out, fields of another type or out of range.
OddConfigs ==
    {EmptyDict,
     [prefix |-> PyStr("p_")],
     [type |-> None],
     [type |-> PyStr("")],
     [type |-> PyStr(""), prefix |-> PyStr("p_")],
     [type |-> PyInt(0)],
     [type |-> PyInt(7)],
     Cfg("nope"),
     Cfg("base"),
     Cfg("stamp"),
     [type |-> PyStr("stamp"), prefix |-> PyStr("q"), suffix |-> PyStr("r")],
     Cfg("prefix"),
     [type |-> PyStr("prefix"), prefix |-> PyInt(5)],
     Cfg("suffix"),
     Cfg("random_hex"),
     [type |-> PyStr("random_hex"), length |-> PyInt(0)],
     [type |-> PyStr("random_hex"), length |-> PyInt(-1)],
     [type |-> PyStr("random_hex"), length |-> PyStr("3")],
     [type |-> PyStr("random_hex"), length |-> PyStr("-3")],
     [type |-> PyStr("random_hex"), length |-> PyStr("x")],
     [type |-> PyStr("random_hex"), length |-> PyBool(TRUE)],
     [type |-> PyStr("random_hex"), length |-> None],
     Cfg("timestamp"),
     [type |-> PyStr("timestamp"), fmt |-> None],
     Cfg("increment"),
     [type |-> PyStr("increment"), width |-> PyStr("2")],
     Cfg("uuid"),
     [type |-> PyStr("uuid"), version |-> PyInt(2)],
     Cfg("hostname"),
     [type |-> PyStr("hostname"), short |-> PyInt(0)],
     Cfg("metadata_hash"),
     [type |-> PyStr("metadata_hash"), algo |-> None, length |-> PyStr("4")],
     Cfg("composite"),
     [type |-> PyStr("composite"), policies |-> None],
     [type |-> PyStr("composite"), policies |-> PyList(<<Cfg("identity"), EmptyDict>>)],
     [type |-> PyStr("composite"), policies |-> PyList(<<Cfg("nope"), Cfg("identity")>>)],
     [type |-> PyStr("composite"),
      policies |-> PyList(<<Cfg("stamp"), [type |-> PyStr("")]>>)],
     [type |-> PyStr("composite"),
      policies |-> PyList(<<Cfg("uuid"),
                            [type |-> PyStr("composite"),
                             policies |-> PyList(<<[type |-> PyStr("random_hex"),
                                                    length |-> PyInt(0)]>>)]>>)]}

Configs == {to_dict(p) : p \in Policies} \cup OddConfigs

-----------------------------------------------------------------------------
(* The state after `import ufilename`: the ten decorated classes are       *)
(* registered and no call is under way.  The directory holds the files     *)
(* earlier runs left in it.                                                *)

Idle == [pc |-> "idle"]
NoCall == [name |-> "none"]

InitRegistry == [t \in {BuiltinClasses[c].type_name.str : c \in DOMAIN BuiltinClasses} |->
                    CHOOSE c \in DOMAIN BuiltinClasses : BuiltinClasses[c].type_name.str = t]

\* t_01.x .. t_0n.x, the names IncrementPolicy(width=2, start=1) gives
SequenceFiles(n) ==
    {PathJoin(Directory, "t_" \o FormatZeroPad(k, 2).val \o ".x") : k \in 1..n}

InitialDirectories == {SequenceFiles(n) : n \in 0..MaxFiles}

Init ==
    /\ registry = InitRegistry
    /\ files \in InitialDirectories
    /\ op = NoCall
    /\ scan = Idle

-----------------------------------------------------------------------------
(* The calls.  op holds the call just made, with its arguments and its     *)
(* outcome, until the caller drops the result.                             *)

\* register_policy(cls)
RegisterPolicy(cls) ==
    LET r == register_policy(registry, cls)
    IN  /\ op = NoCall
        /\ \/ IsErr(r.res)
           \/ Cardinality(DOMAIN registry) < Cardinality(DOMAIN InitRegistry) + MaxUserClasses
        /\ registry' = r.reg
        /\ op' = [name |-> "register_policy", cls |-> cls, res |-> r.res]
        /\ UNCHANGED <<files, scan>>

\* policy_from_dict(data)
PolicyFromDict(data) ==
    /\ op = NoCall
    /\ op' = [name |-> "policy_from_dict", data |-> data, reg |-> registry,
              res |-> policy_from_dict(data, registry)]
    /\ UNCHANGED <<registry, files, scan>>

\* data = p.to_dict(); back = policy_from_dict(data); again = back.to_dict()
RoundTrip(p) ==
    LET data == to_dict(p)
        back == policy_from_dict(data, registry)
    IN  /\ op = NoCall
        /\ op' = [name |-> "round_trip", policy |-> p, data |-> data, back |-> back,
                  again |-> IF IsErr(back) THEN back ELSE Val(to_dict(back.val))]
        /\ UNCHANGED <<registry, files, scan>>

\* cls(**args)
ConstructPolicy(c) ==
    /\ op = NoCall
    /\ op' = [name |-> "construct", cls |-> c.cls, args |-> c.args,
              res |-> Construct(c.cls, c.args)]
    /\ UNCHANGED <<registry, files, scan>>

\* build_filename(policy, base, ext, directory, metadata)
BuildFilename(policy, base, ext, directory, metadata, w) ==
    LET r == build_filename(policy, base, ext, directory, metadata, w)
    IN  /\ op' = [name |-> "build_filename", policy |-> policy, base |-> base,
                  ext |-> ext, directory |-> directory, metadata |-> metadata,
                  w |-> w, res |-> r.res, run |-> r.run]
        /\ UNCHANGED <<registry, files, scan>>

\* A policy the caller built beforehand.
BuildWithPolicy ==
    /\ op = NoCall
    /\ \E policy \in Policies, base \in Bases, ext \in Exts,
          directory \in Directories, metadata \in Metadatas, w \in Worlds(files) :
            BuildFilename(policy, base, ext, directory, metadata, w)

\* The policy the last constructor or policy_from_dict call returned.
BuildWithLast ==
    /\ op.name \in {"construct", "policy_from_dict"}
    /\ ~IsErr(op.res)
    /\ \E base \in Bases, ext \in Exts, directory \in Directories,
          metadata \in Metadatas, w \in Worlds(files) :
            BuildFilename(op.res.val, base, ext, directory, metadata, w)

\* The caller is done with the outcome of the last call.
Drop ==
    /\ op # NoCall
    /\ op' = NoCall
    /\ UNCHANGED <<registry, files, scan>>

\* Generating file names: policies are constructed or deserialized and
\* build_filename is called with them.
Next ==
    \/ \E c \in LeafCalls : ConstructPolicy(c)
    \/ \E data \in Configs : PolicyFromDict(data)
    \/ BuildWithPolicy
    \/ BuildWithLast
    \/ Drop

Spec == Init /\ [][Next]_vars

\* The registry and the serialized form: classes are registered, configs
\* are resolved, policies are serialized and read back.
NextReg ==
    \/ \E cls \in DOMAIN Classes : RegisterPolicy(cls)
    \/ \E data \in Configs : PolicyFromDict(data)
    \/ \E p \in Policies : RoundTrip(p)
    \/ Drop

SpecReg == Init /\ [][NextReg]_vars

-----------------------------------------------------------------------------
(* IncrementPolicy.generate one loop iteration at a time, while other      *)
(* processes create and remove files in the directory.  scan holds the     *)
(* call under way: the policy, the context, i, and the checks made so far  *)
(* (the candidate number and whether its file existed when checked).       *)

IncrementCalls ==
    {Call("IncrementPolicy", [width |-> PyInt(width), start |-> PyInt(start)]) :
        width \in {-1, 0, 2}, start \in {-1, 1, MaxNum}}

IncrementPolicies == Constructed(IncrementCalls)

IncrementContexts ==
    {FilenameContext(base, ext, directory, EmptyDict) :
        base \in Bases, ext \in Exts, directory \in Directories}

\* The files other processes create and remove.
EnvPaths == SequenceFiles(MaxNum)

\* generate(ctx) is entered: lines 237-240
IncrementBegin(self, ctx) ==
    /\ op = NoCall
    /\ scan = Idle
    /\ IF IsNone(ctx.directory)
       THEN /\ op' = [name |-> "generate", policy |-> self, ctx |-> ctx,
                      res |-> MissingDirectory, checked |-> <<>>]
            /\ scan' = Idle
       ELSE /\ scan' = [pc |-> "loop", self |-> self, ctx |-> ctx,
                        i |-> self.start.int, checked |-> <<>>]
            /\ op' = op
    /\ UNCHANGED <<registry, files>>

\* i += 1
NextCandidate(i) == i + 1

\* One iteration of the while loop: lines 242-246
IncrementStep ==
    /\ scan # Idle
    /\ LET candidate_base == CandidateBase(scan.self, scan.ctx, scan.i)
       IN  IF IsErr(candidate_base)
           THEN /\ op' = [name |-> "generate", policy |-> scan.self, ctx |-> scan.ctx,
                          res |-> candidate_base, checked |-> scan.checked]
                /\ scan' = Idle
           ELSE LET found == exists(files, Candidate(scan.ctx, candidate_base.val))
                    checked == Append(scan.checked, [i |-> scan.i, existed |-> found])
                IN  IF ~found
                    THEN /\ op' = [name |-> "generate", policy |-> scan.self,
                                   ctx |-> scan.ctx, res |-> candidate_base,
                                   checked |-> checked]
                         /\ scan' = Idle
                    ELSE /\ scan' = [scan EXCEPT !.i = NextCandidate(scan.i),
                                                 !.checked = checked]
                         /\ op' = op
    /\ UNCHANGED <<registry, files>>

\* Another process creates a file.
EnvCreate(path) ==
    /\ path \notin files
    /\ files' = files \cup {path}
    /\ UNCHANGED <<registry, op, scan>>

\* Another process removes a file.
EnvRemove(path) ==
    /\ path \in files
    /\ files' = files \ {path}
    /\ UNCHANGED <<registry, op, scan>>

NextInc ==
    \/ \E self \in IncrementPolicies, ctx \in IncrementContexts : IncrementBegin(self, ctx)
    \/ IncrementStep
    \/ \E path \in EnvPaths : EnvCreate(path)
    \/ \E path \in EnvPaths : EnvRemove(path)
    \/ Drop

SpecInc == Init /\ [][NextInc]_vars

\* A call under way is not suspended for ever: the program is sequential
\* and every iteration ends.
FairSpecInc == SpecInc /\ WF_vars(IncrementStep)

-----------------------------------------------------------------------------
(* The registry and the serialized form (SpecReg). *)

\* C1: serializing a policy of one of the ten registered types, resolving
\* the config and serializing the result gives the first config again:
\* policy_from_dict(p.to_dict()) succeeds and its to_dict() equals
\* p.to_dict(), nested child configs in the same order.
C1_RoundTrip ==
    op.name = "round_trip" =>
        /\ ~IsErr(op.back)
        /\ op.again = Val(op.data)
        /\ op.data.type = TypeNameOf(op.policy.cls)

\* A composite of composites, one of them with children of its own, has
\* been serialized and read back.
C1_Witness ==
    /\ op.name = "round_trip"
    /\ op.policy \in NestedComposites
    /\ Len(op.policy.policies) = 2
    /\ KindOf(op.policy.policies[1].cls) = "CompositePolicy"
    /\ op.policy.policies[1].policies = <<>>
    /\ KindOf(op.policy.policies[2].cls) = "CompositePolicy"
    /\ Len(op.policy.policies[2].policies) = 2
    /\ op.again = Val(op.data)

TagOf(data) == IF "type" \in DOMAIN data THEN data.type ELSE None
TagRegistered(reg, tag) == IsStr(tag) /\ tag.str \in DOMAIN reg

FalsyTags == {None, PyStr(""), PyInt(0), PyBool(FALSE)}

C4_Step ==
    /\ \A t \in DOMAIN registry : t \in DOMAIN registry' /\ registry'[t] = registry[t]
    /\ op'.name # "register_policy" => registry' = registry
    /\ op = NoCall /\ op'.name = "register_policy" =>
          LET cls == op'.cls
          IN  IF ~HasTypeName(cls) THEN IsErr(op'.res) /\ registry' = registry
              ELSE IF TypeNameOf(cls).str \in DOMAIN registry
                  THEN op'.res = DuplicateRegistration /\ registry' = registry
              ELSE /\ op'.res = Val(cls)
                   /\ DOMAIN registry' = DOMAIN registry \cup {TypeNameOf(cls).str}
                   /\ registry'[TypeNameOf(cls).str] = cls

\* C4: no step removes or replaces an entry of the registry, so a tag keeps
\* the class first registered under it; register_policy with a tag already
\* present fails with DuplicateRegistration and changes nothing, with a new
\* tag it adds that one entry; no other call changes the registry.
C4_FirstRegistrationWins == [][C4_Step]_vars

\* A second class was refused the tag "stamp", which keeps the first one.
C4_Witness ==
    /\ op.name = "register_policy"
    /\ op.cls = "StampPolicy2"
    /\ op.res = DuplicateRegistration
    /\ "stamp" \in DOMAIN registry
    /\ registry["stamp"] = "StampPolicy"

-----------------------------------------------------------------------------
(* Generating names (Spec). *)

\* The run of a call and of every call made within it.
RECURSIVE RunsOf(_)
RunsOf(run) == {run} \cup UNION {RunsOf(run.calls[k]) : k \in 1..Len(run.calls)}

IsBuild == op.name = "build_filename"
CompositeRuns == {r \in RunsOf(op.run) : KindOf(r.p.cls) = "CompositePolicy"}

\* C2: in every composite's generate, at any depth, the children are
\* invoked once each in declared order, child k with the base child k-1
\* returned (the composite's own base for the first) and the ext, directory
\* and metadata of the composite's context; the composite returns what its
\* last child returned, its own base if it has no children, and
\* Composite([Identity, Identity]) names the file base + ext.
C2_ContextThreaded ==
    IsBuild =>
        /\ \A r \in CompositeRuns :
            LET n == Len(r.p.policies)
            IN  /\ Len(r.calls) <= n
                /\ \A k \in 1..Len(r.calls) :
                    /\ r.calls[k].p = r.p.policies[k]
                    /\ k > 1 => ~IsErr(r.calls[k - 1].res)
                    /\ r.calls[k].ctx.base =
                          IF k = 1 THEN r.ctx.base ELSE r.calls[k - 1].res.val
                    /\ r.calls[k].ctx.ext = r.ctx.ext
                    /\ r.calls[k].ctx.directory = r.ctx.directory
                    /\ r.calls[k].ctx.metadata = r.ctx.metadata
                /\ ~IsErr(r.res) =>
                    /\ Len(r.calls) = n
                    /\ r.res = IF n = 0 THEN Val(r.ctx.base) ELSE r.calls[n].res
        /\ op.run.ctx.ext = op.ext /\ op.run.ctx.directory = op.directory
        /\ /\ KindOf(op.policy.cls) = "CompositePolicy"
           /\ Len(op.policy.policies) = 2
           /\ \A k \in 1..2 : KindOf(op.policy.policies[k].cls) = "IdentityPolicy"
           => op.res = Val(op.base \o op.ext)

\* A composite whose second child is a composite of two children ran to
\* its end in a directory and changed the base.
C2_Witness ==
    /\ IsBuild
    /\ ~IsErr(op.res)
    /\ ~IsNone(op.directory)
    /\ KindOf(op.policy.cls) = "CompositePolicy"
    /\ Len(op.run.calls) = 2
    /\ KindOf(op.run.calls[2].p.cls) = "CompositePolicy"
    /\ Len(op.run.calls[2].calls) = 2
    /\ op.run.calls[2].calls[2].ctx.base # op.base
    /\ op.run.calls[2].ctx.base # op.base
    /\ op.run.calls[2].ctx.metadata # EmptyDict

\* C6: build_filename hands generate a context with the given base, ext
\* and directory and the given metadata, an empty mapping if none was
\* given, and returns generate's result followed by ext; so
\* IdentityPolicy gives base + ext, PrefixPolicy(p) gives p + base + ext
\* and SuffixPolicy(s) gives base + s + ext.
C6_BuildAppendsExt ==
    IsBuild =>
        /\ op.run.p = op.policy
        /\ op.run.ctx = [base |-> op.base, ext |-> op.ext, directory |-> op.directory,
                         metadata |-> IF op.metadata = None THEN EmptyDict
                                      ELSE op.metadata]
        /\ IsErr(op.run.res) => op.res = op.run.res
        /\ ~IsErr(op.run.res) => op.res = Val(op.run.res.val \o op.ext)
        /\ KindOf(op.policy.cls) = "IdentityPolicy" => op.res = Val(op.base \o op.ext)
        /\ KindOf(op.policy.cls) = "PrefixPolicy"
              => op.res = Val(op.policy.prefix.str \o op.base \o op.ext)
        /\ KindOf(op.policy.cls) = "SuffixPolicy"
              => op.res = Val(op.base \o op.policy.suffix.str \o op.ext)

\* PrefixPolicy("p_") named ab.x as p_ab.x.
C6_Witness ==
    /\ IsBuild
    /\ KindOf(op.policy.cls) = "PrefixPolicy"
    /\ op.base = "ab" /\ op.ext = ".x"
    /\ op.res = Val("p_ab.x")


HashRuns == {r \in RunsOf(op.run) : KindOf(r.p.cls) = "MetadataHashPolicy"}

KeyPresent(r) == IsStr(r.p.key) /\ r.p.key.str \in DOMAIN r.ctx.metadata
AlgoSupported(r) == IsStr(r.p.algo) /\ r.p.algo.str \in SupportedAlgos

\* The digest of the value under the policy's key, the algorithm being
\* supported.
DigestOf(r) == hexdigest(r.p.algo, PyRepr(r.ctx.metadata[r.p.key.str])).val

Prefix(h, n) ==
    IF n >= Len(h) THEN h
    ELSE IF n >= 0 THEN SubSeq(h, 1, n)
    ELSE IF n + Len(h) >= 0 THEN SubSeq(h, 1, n + Len(h))
    ELSE ""

\* The contexts that agree with ctx on the base and on the value under key.
SameBaseAndValue(ctx, key) ==
    {FilenameContext(ctx.base, ext, directory, MetadataOrEmpty(m)) :
        ext \in Exts, directory \in Directories,
        m \in {d \in Metadatas :
                /\ key \in DOMAIN MetadataOrEmpty(d) <=> key \in DOMAIN ctx.metadata
                /\ key \in DOMAIN ctx.metadata => MetadataOrEmpty(d)[key] = ctx.metadata[key]}}

C8_ChildErrorAborts ==
    IsBuild =>
        /\ \A r \in CompositeRuns :
            /\ \A k \in 1..Len(r.calls) :
                /\ r.calls[k].p = r.p.policies[k]
                /\ IsErr(r.calls[k].res) => k = Len(r.calls) /\ r.res = r.calls[k].res
            /\ IsErr(r.res) =>
                /\ Len(r.calls) \in 1..Len(r.p.policies)
                /\ r.calls[Len(r.calls)].res = r.res
        /\ \A r \in RunsOf(op.run) :
            /\ IsErr(r.res) => op.res = r.res
            /\ KindOf(r.p.cls) = "IncrementPolicy" /\ IsNone(r.ctx.directory)
                  => r.res = MissingDirectory
        /\ files = op.w.files

\* In a composite within a composite IncrementPolicy raised
\* MissingDirectory, a child after it was never invoked, and
\* build_filename raised that error.
C8_Witness ==
    /\ IsBuild
    /\ op.res = MissingDirectory
    /\ KindOf(op.policy.cls) = "CompositePolicy"
    /\ Len(op.policy.policies) = 2
    /\ Len(op.run.calls) = 1
    /\ KindOf(op.run.calls[1].p.cls) = "CompositePolicy"
    /\ Len(op.run.calls[1].calls) = 2
    /\ KindOf(op.run.calls[1].calls[2].p.cls) = "IncrementPolicy"

HexChars == {CharAt(HexDigits, k) : k \in 1..Len(HexDigits)}

RECURSIVE PoliciesIn(_)
PoliciesIn(p) ==
    {p} \cup IF KindOf(p.cls) = "CompositePolicy"
             THEN UNION {PoliciesIn(p.policies[k]) : k \in 1..Len(p.policies)}
             ELSE {}

\* C9: RandomHexPolicy(length=L).generate returns base + "_" + token, the
\* token L characters long, each in 0-9a-f, cut from the hex of ceil(L/2)
\* random bytes; the constructor and from_dict raise InvalidConfig for a
\* length <= 0, so every RandomHexPolicy they return, on its own or within
\* a composite, has a positive length.
C9_TokenLength ==
    /\ IsBuild =>
        /\ \A r \in {q \in RunsOf(op.run) : KindOf(q.p.cls) = "RandomHexPolicy"} :
            LET L == r.p.length.int
                stem == r.ctx.base \o "_"
            IN  /\ L > 0
                /\ ~IsErr(r.res)
                /\ Len(r.res.val) = Len(stem) + L
                /\ SubSeq(r.res.val, 1, Len(stem)) = stem
                /\ \A k \in 1..L : CharAt(r.res.val, Len(stem) + k) \in HexChars
        /\ KindOf(op.policy.cls) = "RandomHexPolicy"
              => /\ op.run.pos * 2 \in {op.policy.length.int, op.policy.length.int + 1}
                 /\ op.res.val =
                      op.base \o "_"
                      \o SubSeq(token_hex(op.w, 0, op.run.pos), 1, op.policy.length.int)
                      \o op.ext
    /\ op.name = "construct" /\ KindOf(op.cls) = "RandomHexPolicy" =>
        IF op.args.length.int <= 0 THEN op.res = InvalidLength
        ELSE op.res = Val([cls |-> op.cls, length |-> op.args.length])
    /\ /\ op.name = "policy_from_dict"
       /\ TagOf(op.data) = PyStr("random_hex")
       /\ "length" \in DOMAIN op.data
       /\ IsInt(op.data.length)
       => IF op.data.length.int <= 0 THEN op.res = InvalidLength
          ELSE op.res = Val([cls |-> "RandomHexPolicy", length |-> op.data.length])
    /\ op.name \in {"construct", "policy_from_dict"} /\ ~IsErr(op.res) =>
        \A q \in PoliciesIn(op.res.val) :
            KindOf(q.cls) = "RandomHexPolicy" => q.length.int > 0

\* A token of odd length 3 was cut from the hex of two random bytes.
C9_Witness ==
    /\ IsBuild
    /\ KindOf(op.policy.cls) = "RandomHexPolicy"
    /\ op.policy.length.int = 3
    /\ op.run.pos = 2
    /\ op.run.res.val = op.base \o "_" \o SubSeq(token_hex(op.w, 0, 2), 1, 3)
    /\ Len(op.res.val) = Len(op.base) + 1 + 3 + Len(op.ext)

\* C10 as claimed: generate on a MetadataHashPolicy whose algo names no
\* supported hash raises UnknownAlgorithm in every context.
C10_AsClaimed ==
    IsBuild =>
        \A r \in HashRuns :
            IsStr(r.p.algo) /\ ~AlgoSupported(r) => r.res = UnknownAlgorithm

\* C10, amended: a MetadataHashPolicy whose algo names no supported hash
\* is constructed and deserialized without error; its generate raises
\* UnknownAlgorithm in every context whose metadata holds a value other
\* than None under the policy's key, and returns the base unchanged where
\* the key is absent or its value is None.
C10_UnknownAlgorithm ==
    /\ IsBuild =>
        \A r \in HashRuns :
            IsStr(r.p.algo) /\ ~AlgoSupported(r) =>
                IF KeyPresent(r) /\ r.ctx.metadata[r.p.key.str] # None
                THEN r.res = UnknownAlgorithm
                ELSE r.res = Val(r.ctx.base)
    /\ /\ op.name = "construct"
       /\ KindOf(op.cls) = "MetadataHashPolicy"
       => ~IsErr(op.res) /\ op.res.val.algo = op.args.algo

\* The key was absent and the policy with the unknown algorithm returned
\* the base.
C10_Witness ==
    /\ IsBuild
    /\ KindOf(op.policy.cls) = "MetadataHashPolicy"
    /\ IsStr(op.policy.algo) /\ ~AlgoSupported(op.run)
    /\ ~KeyPresent(op.run)
    /\ op.run.res = Val(op.base)

-----------------------------------------------------------------------------
(* IncrementPolicy's scan (SpecInc). *)

\* n zero-padded to W characters: the sign, zeros, the digits of n; a
\* number with W digits or more is not padded.
ZeroPadded(n, W) ==
    LET sign == IF n < 0 THEN "-" ELSE ""
        digits == NatToStr(IF n < 0 THEN 0 - n ELSE n)
        fill == W - Len(sign) - Len(digits)
    IN  IF fill <= 0 THEN sign \o digits ELSE sign \o Zeros(fill) \o digits

IsGenerate == op.name = "generate" /\ ~IsNone(op.ctx.directory)

\* The checks made are those of S, S+1, ... in this order, every one but
\* the last having found its file.
ChecksInOrder(checked, S) ==
    /\ \A k \in 1..Len(checked) : checked[k].i = S + k - 1
    /\ \A k \in 1..(Len(checked) - 1) : checked[k].existed

\* C5 as claimed: IncrementPolicy(width=W, start=S).generate with a
\* directory checks S, S+1, ... in increasing order and returns
\* base_<n zero-padded to W> for the first n whose file did not exist when
\* checked.
C5_AsClaimed ==
    IsGenerate =>
        /\ ~IsErr(op.res)
        /\ Len(op.checked) >= 1
        /\ ChecksInOrder(op.checked, op.policy.start.int)
        /\ ~op.checked[Len(op.checked)].existed
        /\ op.res = Val(op.ctx.base \o "_"
                        \o ZeroPadded(op.checked[Len(op.checked)].i, op.policy.width.int))

\* The same for the widths W >= 0, with what a negative width does: the
\* call raises on formatting its first candidate, before any check.  While
\* a call is under way every check made found its file.
IncrementScansInOrder ==
    /\ IsGenerate /\ op.policy.width.int >= 0 =>
        /\ ~IsErr(op.res)
        /\ Len(op.checked) >= 1
        /\ ChecksInOrder(op.checked, op.policy.start.int)
        /\ ~op.checked[Len(op.checked)].existed
        /\ op.res = Val(op.ctx.base \o "_"
                        \o ZeroPadded(op.checked[Len(op.checked)].i, op.policy.width.int))
    /\ IsGenerate /\ op.policy.width.int < 0 =>
        op.res = InvalidFormatSpec /\ op.checked = <<>>
    /\ op.name = "generate" /\ IsNone(op.ctx.directory) =>
        op.res = MissingDirectory /\ op.checked = <<>>
    /\ scan # Idle =>
        /\ ChecksInOrder(scan.checked, scan.self.start.int)
        /\ \A k \in 1..Len(scan.checked) : scan.checked[k].existed
        /\ scan.i = scan.self.start.int + Len(scan.checked)

\* A call returns only on a check that finds no file, and the directory is
\* what other processes made it: the call itself creates nothing.
IncrementReturnsOnFreeName ==
    [][/\ scan # Idle /\ scan' = Idle /\ ~IsErr(op'.res)
          => ~exists(files, Candidate(scan.ctx, op'.res.val))
       /\ scan # scan' => files' = files]_vars

\* Every call ends, the directory holding finitely many files.
IncrementTerminates == (scan # Idle) ~> (scan = Idle)

\* In a directory that does not change during the call, generate returns
\* the name of the least n >= S whose file is not there: t_01 in an empty
\* directory, t_02 once t_01.x exists.
IncrementLeastFree ==
    IsBuild =>
        \A r \in {q \in RunsOf(op.run) :
                    /\ KindOf(q.p.cls) = "IncrementPolicy"
                    /\ ~IsNone(q.ctx.directory)
                    /\ q.p.width.int >= 0} :
            /\ ~IsErr(r.res)
            /\ \E n \in r.p.start.int..(r.p.start.int + Cardinality(files)) :
                /\ r.res = Val(r.ctx.base \o "_" \o ZeroPadded(n, r.p.width.int))
                /\ PathJoin(r.ctx.directory, r.res.val \o r.ctx.ext) \notin files
                /\ \A m \in r.p.start.int..(n - 1) :
                    PathJoin(r.ctx.directory,
                             r.ctx.base \o "_" \o ZeroPadded(m, r.p.width.int)
                             \o r.ctx.ext) \in files

====
